---- MODULE Spec2Model ----
(***************************************************************************)
(* A model of random-activitygen-py: the statistics document, the road     *)
(* network, and the operations of randomActivityGen.py (verify_stats,      *)
(* setup_city_gates, find_school_edges, setup_schools, main) and of        *)
(* Perlin.py (calculate_network_population).                               *)
(*                                                                         *)
(* Conventions.  An optional value (an XML section that may be missing, a  *)
(* Python None) is a sequence of length 0 (missing) or 1 (present).  Real  *)
(* numbers are fixed point: random.random() and the weights of a gate are  *)
(* in units of 1/RngMod, cos/sin are in thousandths, angles are in units   *)
(* of 6 degrees.  The random generator is a deterministic stream fixed by  *)
(* the seed; every operation records the document it started from (pre),   *)
(* the exception it ended with (err) and the draws it took (draws).        *)
(*                                                                         *)
(* Specifications: SpecGates, SpecSchools and SpecStats call one function  *)
(* of the module repeatedly on a loaded document; SpecAuto calls           *)
(* setup_schools on cities of different sizes; SpecMain is main().         *)
(***************************************************************************)
EXTENDS Integers, Sequences, FiniteSets

VARIABLES
    net,        \* the sumolib network handed to the operations
    cfg,        \* the docopt arguments (args)
    doc,        \* the statistics document (stats), mutated in place
    loaded,     \* the document as it was loaded
    pre,        \* the document as it was when the last operation started
    op,         \* the last operation that ran
    arg,        \* its count argument (gate_count / school_count), optional
    err,        \* the exception it ended with, "none" when it returned
    draws,      \* the number of draws it took from the random generator
    rng,        \* the state of the shared random generator (module random)
    gates,      \* setup_city_gates: the nodes chosen (gate), in order
    rads,       \* setup_city_gates: the directions (rads), in order
    sites,      \* setup_schools: the ids of new_school_edges, optional
    pc,         \* main: the position in main
    popBase,    \* perlin.POPULATION_BASE
    indBase,    \* perlin.INDUSTRY_BASE
    importBase, \* POPULATION_BASE as bound by the from-import
    output,     \* the output file, optional
    stats2      \* the file out/stats2.xml, optional

vars == <<net, cfg, doc, loaded, pre, op, arg, err, draws, rng, gates, rads,
          sites, pc, popBase, indBase, importBase, output,
          stats2>>

(***************************************************************************)
(* Bounds of the model.                                                    *)
(***************************************************************************)
MaxGateCount == 4       \* largest --gates.count tried
MaxSchoolCount == 3     \* largest --schools.count tried
MaxBase == 1            \* noise bases are drawn from 0..MaxBase
RngMod == 5             \* the random generator has RngMod output values
NoiseLevels == 3        \* the noise field takes the values 0..NoiseLevels-1

None == <<>>
Some(x) == <<x>>
IsNone(o) == o = <<>>
Get(o) == o[1]

Range(s) == {s[i] : i \in 1..Len(s)}

RECURSIVE SumSeq(_)
SumSeq(s) == IF s = <<>> THEN 0 ELSE Head(s) + SumSeq(Tail(s))

RECURSIVE SelectSeqBy(_, _)
\* the elements of s that are in the set keep, in the order of s
SelectSeqBy(s, keep) ==
    IF s = <<>> THEN <<>>
    ELSE IF Head(s) \in keep THEN <<Head(s)>> \o SelectSeqBy(Tail(s), keep)
         ELSE SelectSeqBy(Tail(s), keep)

(***************************************************************************)
(* Road networks.  A node has an id and a coordinate; an edge has an id,   *)
(* its end nodes, its lanes (TRUE: the lane allows "private") and a shape. *)
(***************************************************************************)
Node(id, x, y) == [id |-> id, x |-> x, y |-> y]
Edge(id, from, to, lanes, shape) ==
    [id |-> id, from |-> from, to |-> to, lanes |-> lanes, shape |-> shape]

\* four dead ends at the compass points, radius 100 around the origin
NetCompass ==
    [nodes |-> << Node("O", 0, 0), Node("N", 0, 100), Node("E", 100, 0),
                  Node("S", 0, -100), Node("W", -100, 0) >>,
     edges |-> << Edge("ON", "O", "N", <<TRUE>>, << <<0, 0>>, <<0, 100>> >>),
                  Edge("EO", "E", "O", <<TRUE, TRUE>>, << <<100, 0>>, <<0, 0>> >>),
                  Edge("OS", "O", "S", <<TRUE, FALSE>>, << <<0, 0>>, <<0, -100>> >>),
                  Edge("WO", "W", "O", <<TRUE>>, << <<-100, 0>>, <<0, 0>> >>) >>]

\* a ring: every node has two neighbours, there is no dead end
NetRing ==
    [nodes |-> << Node("A", 0, 0), Node("B", 10, 0), Node("C", 0, 10) >>,
     edges |-> << Edge("AB", "A", "B", <<TRUE>>, << <<0, 0>>, <<10, 0>> >>),
                  Edge("BC", "B", "C", <<TRUE>>, << <<10, 0>>, <<0, 10>> >>),
                  Edge("CA", "C", "A", <<TRUE>>, << <<0, 10>>, <<0, 0>> >>) >>]

\* a star whose easternmost dead end C is reached by a footpath only
NetPath ==
    [nodes |-> << Node("C", 80, 0), Node("A", -50, 0), Node("B", 0, 0),
                  Node("D", 0, -30) >>,
     edges |-> << Edge("BC", "B", "C", <<FALSE>>, << <<0, 0>>, <<40, 20>>, <<80, 0>> >>),
                  Edge("AB", "A", "B", <<TRUE>>, << <<-50, 0>>, <<0, 0>> >>),
                  Edge("BA", "B", "A", <<TRUE, TRUE>>, << <<0, 0>>, <<-50, 0>> >>),
                  Edge("BD", "B", "D", <<FALSE, TRUE>>, << <<0, 0>>, <<0, -30>> >>) >>]

\* a single street
NetSingle ==
    [nodes |-> << Node("A", 0, 0), Node("B", 10, 5) >>,
     edges |-> << Edge("AB", "A", "B", <<TRUE>>, << <<0, 0>>, <<10, 5>> >>) >>]

Networks == {NetCompass, NetRing, NetPath, NetSingle}

\* net.getNodes(), net.getEdges()
getNodes(n) == n.nodes
getEdges(n) == n.edges

\* node.getIncoming(), node.getOutgoing(): in the order of the network
getIncoming(n, node) ==
    SelectSeqBy(n.edges, {e \in Range(n.edges) : e.to = node.id})
getOutgoing(n, node) ==
    SelectSeqBy(n.edges, {e \in Range(n.edges) : e.from = node.id})

\* node.getNeighboringNodes(): the other nodes joined to node by an edge
getNeighboringNodes(n, node) ==
    ({e.from : e \in Range(getIncoming(n, node))} \cup
     {e.to : e \in Range(getOutgoing(n, node))}) \ {node.id}

\* variant: every lane is counted
AllLanes(e) == Len(e.lanes)
\* len([lane for lane in edge.getLanes() if lane.allows("private")])
PrivateLanes(e) == Cardinality({i \in 1..Len(e.lanes) : e.lanes[i]})

\* any([lane.allows("private") for lane in edge.getLanes()])
AllowsPrivate(e) == \E i \in 1..Len(e.lanes) : e.lanes[i]

(***************************************************************************)
(* The statistics document: the root tag and the sections under it.        *)
(***************************************************************************)
General(inhabitants, households) ==
    [inhabitants |-> inhabitants, households |-> households]
Street(edge, population, industry) ==
    [edge |-> edge, population |-> population, industry |-> industry]
Entrance(edge, incoming, outgoing, pos) ==
    [edge |-> edge, incoming |-> incoming, outgoing |-> outgoing, pos |-> pos]
School(edge, pos, beginAge, endAge, capacity, opening, closing) ==
    [edge |-> edge, pos |-> pos, beginAge |-> beginAge, endAge |-> endAge,
     capacity |-> capacity, opening |-> opening, closing |-> closing]
Bracket(beginAge, endAge, peopleNbr) ==
    [beginAge |-> beginAge, endAge |-> endAge, peopleNbr |-> peopleNbr]
Hour(tag, hour, proportion) ==
    [tag |-> tag, hour |-> hour, proportion |-> proportion]

\* a document with the required general section and nothing else
BaseDoc ==
    [root |-> "city",
     general |-> Some(General(Some(10000), Some(4000))),
     population |-> None, workHours |-> None, streets |-> None,
     cityGates |-> None, schools |-> None]

\* entrance records a loaded document may already hold
OldEntrance1 == Entrance("old1", 17, 23, 5)
OldEntrance2 == Entrance("old2", 10, 10, 0)
LoadedCityGates ==
    {None, Some(<<>>), Some(<<OldEntrance1>>), Some(<<OldEntrance1, OldEntrance2>>)}

\* stats.find(tag).findall(child) on a section that is present
findall(section) == Get(section)

(***************************************************************************)
(* The shared random generator.  Its state is a value x and an increment   *)
(* c fixed by the seed; a draw yields x and steps x by c.                  *)
(***************************************************************************)
RngStates == [x : 0..(RngMod - 1), c : {0, 1, 2}]
\* the output of the k-th next draw, k = 0, 1, ...
Raw(g, k) == (g.x + k * g.c) % RngMod
\* the generator after k draws
Advance(g, k) == [g EXCEPT !.x = Raw(g, k)]
\* the value below n that a draw with output raw yields
RandBelow(n, raw) ==
    IF n <= RngMod THEN raw % n ELSE (raw * (n - 1)) \div (RngMod - 1)
\* random.randint(a, b) for a <= b
randint(a, b, raw) == a + RandBelow(b - a + 1, raw)

(***************************************************************************)
(* setup_city_gates                                                        *)
(***************************************************************************)
\* math.cos at the angles k * tau / TauUnits, in thousandths
CosTable ==
    << 1000, 995, 978, 951, 914, 866, 809, 743, 669, 588, 500, 407, 309, 208,
       105, 0, -105, -208, -309, -407, -500, -588, -669, -743, -809, -866,
       -914, -951, -978, -995, -1000, -995, -978, -951, -914, -866, -809,
       -743, -669, -588, -500, -407, -309, -208, -105, 0, 105, 208, 309, 407,
       500, 588, 669, 743, 809, 866, 914, 951, 978, 995 >>
\* tau = math.pi * 2, in angle units
tau == Len(CosTable)
cos(rad) == CosTable[(rad % tau) + 1]
sin(rad) == cos(rad - tau \div 4)

\* base_rad = random.random() * tau, in angle units
BaseRad(raw) == (raw * tau) \div RngMod

\* dead_ends = [node for node in net.getNodes() if ...]
IsDeadEnd(n, node) ==
    /\ Cardinality(getNeighboringNodes(n, node)) = 1
    /\ \E e \in Range(getIncoming(n, node) \o getOutgoing(n, node)) :
            AllowsPrivate(e)
\* variant: every node of the network is taken for a dead end
DeadEndsUnfiltered(n) == getNodes(n)
DeadEnds(n) ==
    SelectSeqBy(getNodes(n), {node \in Range(getNodes(n)) : IsDeadEnd(n, node)})

\* rads = [(base_rad + i * tau / n) % tau for i in range(0, n)]
Rads(base_rad, n) ==
    [i \in 1..n |-> (base_rad + ((i - 1) * tau) \div n) % tau]

\* np.dot(node.getCoord(), dir) with dir = (cos(rad), sin(rad))
Dot(node, rad) == node.x * cos(rad) + node.y * sin(rad)

\* np.argmax(values): the first index of the largest value (values not empty)
ArgMin(values) ==
    CHOOSE i \in 1..Len(values) :
        /\ \A j \in 1..Len(values) : values[j] >= values[i]
        /\ \A j \in 1..(i - 1) : values[j] > values[i]
ArgMax(values) ==
    CHOOSE i \in 1..Len(values) :
        /\ \A j \in 1..Len(values) : values[j] <= values[i]
        /\ \A j \in 1..(i - 1) : values[j] < values[i]

\* variant: the dead end nearest in the direction, not the furthest
GateForArgMin(dead_ends, rad) ==
    dead_ends[ArgMin([k \in 1..Len(dead_ends) |-> Dot(dead_ends[k], rad)])]
\* gate = dead_ends[gate_index]
GateFor(dead_ends, rad) ==
    dead_ends[ArgMax([k \in 1..Len(dead_ends) |-> Dot(dead_ends[k], rad)])]

\* sum of the private lanes over a list of edges
LaneSum(edges) == SumSeq([k \in 1..Len(edges) |-> PrivateLanes(edges[k])])

\* 1 + random.random(), in units of 1/RngMod.  random.random() yields the
\* multiples of 2^-53 in [0, 1) and the floats in [1, 2] are the multiples
\* of 2^-52, so the sum is rounded: for the largest value that
\* random.random() yields, 1 - 2^-53, the sum is 2.0
OnePlusRandom(raw) == IF raw = RngMod - 1 THEN 2 * RngMod ELSE RngMod + raw

\* variant: an incoming edge is preferred
GateEdgeIncomingFirst(n, gate) ==
    IF Len(getIncoming(n, gate)) > 0
    THEN getIncoming(n, gate)[1] ELSE getOutgoing(n, gate)[1]
\* edge = gate.getOutgoing()[0] if len(gate.getOutgoing()) > 0 else
\* gate.getIncoming()[0]
GateEdge(n, gate) ==
    IF Len(getOutgoing(n, gate)) > 0
    THEN getOutgoing(n, gate)[1] ELSE getIncoming(n, gate)[1]

\* the entrance record added for a gate; u = <<u1, u2>> are the two draws
NewEntrance(n, gate, u) ==
    LET incoming_lanes == LaneSum(getIncoming(n, gate))
        outgoing_lanes == LaneSum(getOutgoing(n, gate))
        incoming_traffic == OnePlusRandom(u[1]) * outgoing_lanes
        outgoing_traffic == OnePlusRandom(u[2]) * incoming_lanes
        edge == GateEdge(n, gate)
    IN  Entrance(edge.id, incoming_traffic, outgoing_traffic, 0)

\* variant: the entrances already defined are not counted
GatesToInsertAll(gate_count, xml_entrances) == gate_count
\* the number of gates to insert: n = gate_count - len(xml_entrances)
GatesToInsert(gate_count, xml_entrances) == gate_count - Len(xml_entrances)

\* The whole call on document d with the generator in state g.  The result
\* is the document, the exception, the number of draws taken, the chosen
\* nodes and the directions.
CityGatesResult(d, e, k, g, r) ==
    [doc |-> d, err |-> e, draws |-> k, gates |-> g, rads |-> r]
setup_city_gates(n, d, gate_count, g) ==
    IF gate_count < 0 THEN CityGatesResult(d, "AssertionError", 0, <<>>, <<>>)
    ELSE
    LET d1 == IF IsNone(d.cityGates) THEN [d EXCEPT !.cityGates = Some(<<>>)]
              ELSE d
        xml_entrances == findall(d1.cityGates)
        k == GatesToInsert(gate_count, xml_entrances)
        dead_ends == DeadEnds(n)
        rs == Rads(BaseRad(Raw(g, 0)), k)
        gs == [i \in 1..k |-> GateFor(dead_ends, rs[i])]
        new == [i \in 1..k |->
                  NewEntrance(n, gs[i], <<Raw(g, 2 * i - 1), Raw(g, 2 * i)>>)]
    IN  IF k <= 0 THEN CityGatesResult(d1, "none", 0, <<>>, <<>>)
        ELSE IF dead_ends = <<>> THEN CityGatesResult(d1, "ValueError", 1, <<>>, rs)
        ELSE CityGatesResult([d1 EXCEPT !.cityGates = Some(xml_entrances \o new)],
                             "none", 1 + 2 * k, gs, rs)

\* the gate counts tried: one negative, and 0..MaxGateCount
GateCounts == (-1)..MaxGateCount

SetupCityGates ==
    /\ pc = "lib"
    /\ \E gate_count \in GateCounts :
          \E r \in {setup_city_gates(net, doc, gate_count, rng)} :
              /\ doc' = r.doc
              /\ pre' = doc
              /\ op' = "setup_city_gates"
              /\ arg' = Some(gate_count)
              /\ err' = r.err
              /\ draws' = r.draws
              /\ rng' = Advance(rng, r.draws)
              /\ gates' = r.gates
              /\ rads' = r.rads
    /\ UNCHANGED <<net, cfg, loaded, sites, pc, popBase, indBase, importBase,
                   output, stats2>>

(***************************************************************************)
(* The docopt arguments.  Hours are whole hours, --schools.stepsize is in  *)
(* ten-thousandths of an hour, --schools.ratio is in thousandths.          *)
(***************************************************************************)
Args(gates_count, schools_count, ratio, stepsize, open, close, begin_age, end_age, capacity) ==
    [gates_count |-> gates_count, schools_count |-> schools_count,
     schools_ratio |-> ratio, schools_stepsize |-> stepsize,
     schools_open |-> open, schools_close |-> close,
     schools_begin_age |-> begin_age, schools_end_age |-> end_age,
     schools_capacity |-> capacity]

\* ages vary; every begin age is below the end-age upper bound
ArgsAges ==
    Args(4, None, 200, 10000, <<7, 8>>, <<13, 14>>, <<6, 8>>, <<7, 9>>, <<100, 100>>)
\* the begin-age range reaches past the end-age upper bound
ArgsLate ==
    Args(4, None, 200, 10000, <<7, 8>>, <<13, 14>>, <<8, 10>>, <<7, 9>>, <<100, 100>>)
\* opening and closing hours vary in half-hour steps
ArgsHours ==
    Args(4, None, 200, 5000, <<7, 8>>, <<13, 14>>, <<6, 6>>, <<10, 12>>, <<100, 100>>)
\* the capacity varies
ArgsCapacity ==
    Args(4, None, 200, 10000, <<7, 8>>, <<13, 14>>, <<6, 6>>, <<10, 12>>, <<100, 102>>)
\* a step size that truncates to 0 seconds
ArgsZeroStep ==
    Args(4, None, 200, 1, <<7, 8>>, <<13, 14>>, <<6, 6>>, <<10, 12>>, <<100, 100>>)
\* an empty opening interval
ArgsEmptyOpen ==
    Args(4, None, 200, 10000, <<8, 8>>, <<13, 14>>, <<6, 6>>, <<10, 12>>, <<100, 100>>)

SchoolArgs == {ArgsAges, ArgsLate, ArgsHours, ArgsCapacity}
BadSchoolArgs == {ArgsLate, ArgsZeroStep, ArgsEmptyOpen}

(***************************************************************************)
(* find_school_edges                                                       *)
(***************************************************************************)
\* get_edge_pair_centroid(coords) = (x_avg, y_avg), as the two sums over the
\* shape and the number of its points
Centroid(coords) ==
    [sx |-> SumSeq([k \in 1..Len(coords) |-> coords[k][1]]),
     sy |-> SumSeq([k \in 1..Len(coords) |-> coords[k][2]]),
     n |-> Len(coords)]

RECURSIVE ProdSeq(_)
ProdSeq(s) == IF s = <<>> THEN 1 ELSE Head(s) * ProdSeq(Tail(s))

\* variant: the edges are sorted by the x coordinate of their centroid
XKeys(edges) ==
    LET c == [k \in 1..Len(edges) |-> Centroid(edges[k].shape)]
        p == ProdSeq([k \in 1..Len(edges) |-> c[k].n])
    IN  [k \in 1..Len(edges) |-> c[k].sx * (p \div c[k].n)]
\* the sort keys np.mean(get_edge_pair_centroid(x.getShape())), which is
\* (x_avg + y_avg) / 2, of a list of edges: all multiplied by twice the
\* product of the edges' point counts, which makes them integers
MeanKeys(edges) ==
    LET c == [k \in 1..Len(edges) |-> Centroid(edges[k].shape)]
        p == ProdSeq([k \in 1..Len(edges) |-> c[k].n])
    IN  [k \in 1..Len(edges) |-> (c[k].sx + c[k].sy) * (p \div c[k].n)]

\* list.sort(key=...): a stable sort, by insertion; keys[i] is the key of
\* items[i], and the result of SortedIndices is the order of the indices
RECURSIVE InsertByKey(_, _, _)
InsertByKey(sorted, i, keys) ==
    IF sorted = <<>> THEN <<i>>
    ELSE IF keys[i] < keys[sorted[Len(sorted)]]
         THEN InsertByKey(SubSeq(sorted, 1, Len(sorted) - 1), i, keys)
                 \o <<sorted[Len(sorted)]>>
         ELSE sorted \o <<i>>
RECURSIVE SortedIndices(_, _)
SortedIndices(m, keys) ==
    IF m = 0 THEN <<>> ELSE InsertByKey(SortedIndices(m - 1, keys), m, keys)
StableSort(items, keys) ==
    LET order == SortedIndices(Len(items), keys)
    IN  [j \in 1..Len(items) |-> items[order[j]]]

\* noise.pnoise2 at (x, y) offset by base, scaled to 0..NoiseLevels-1: a
\* fixed field, the same value for the same point and base
pnoise2(x, y, base) ==
    ((x \div 10) * 3 + (y \div 10) * 5 + base * 7) % NoiseLevels

\* get_population_number: the noise at the centroid of the edge
get_population_number(e, base) ==
    LET c == Centroid(e.shape)
    IN  pnoise2(c.sx \div c.n, c.sy \div c.n, base)

\* variant: the quotient is rounded down, to 1 at least
DistrictSizeFloor(len_edges, num_schools) ==
    IF len_edges < num_schools THEN 1 ELSE len_edges \div num_schools
\* int(np.ceil(len(edges) / num_schools)), num_schools > 0
DistrictSize(len_edges, num_schools) ==
    (len_edges + num_schools - 1) \div num_schools

\* districts = [edges[x:x + district_size] for x in range(0, len(edges), district_size)]
Districts(edges, district_size) ==
    [d \in 1..((Len(edges) + district_size - 1) \div district_size) |->
        SubSeq(edges, (d - 1) * district_size + 1,
               IF d * district_size <= Len(edges) THEN d * district_size
               ELSE Len(edges))]

\* district.sort(key=population); district[-1]
SchoolEdgeOf(district, base) ==
    LET sorted ==
          StableSort(district,
                     [k \in 1..Len(district) |->
                         get_population_number(district[k], base)])
    IN  sorted[Len(sorted)]

\* the edges sorted by their key
SortedEdges(n) == StableSort(getEdges(n), MeanKeys(getEdges(n)))

\* find_school_edges(net, num_schools), for a network with an edge; base is
\* POPULATION_BASE as the module imported it
find_school_edges(n, num_schools, base) ==
    LET edges == SortedEdges(n)
        districts == Districts(edges, DistrictSize(Len(edges), num_schools))
    IN  [d \in 1..Len(districts) |-> SchoolEdgeOf(districts[d], base)]

(***************************************************************************)
(* setup_schools                                                           *)
(***************************************************************************)
\* random.randint(0, 100) for pos
PosMax == 100

\* stepsize = int(float(args["--schools.stepsize"]) * 3600)
StepSeconds(a) == (a.schools_stepsize * 3600) \div 10000

\* variant: the quotient is rounded down
NumSchoolsDefaultFloor(inhabitants, ratio) == (inhabitants * ratio) \div 1000000
\* math.ceil(int(inhabitants) * schools_per_1000_inhabitants / 1000)
NumSchoolsDefault(inhabitants, ratio) ==
    (inhabitants * ratio + 999999) \div 1000000

\* variant: the schools already defined are not counted
NumberNewSchoolsAll(target, existing) == target
\* number_new_schools = target - len(xml_schools.findall("school"))
NumberNewSchools(target, existing) == target - existing

\* variant: the end age is drawn from the whole configured range
EndAgeLowConfigured(begin_age, end_age) == end_age[1]
\* the lower end of the draw of end_age
EndAgeLow(begin_age, end_age) ==
    IF begin_age + 1 <= end_age[2] THEN end_age[2] ELSE begin_age + 1

\* random.randrange(start, stop, step), step >= 0: the number of values
RandRangeCount(start, stop, step) ==
    IF step = 0 THEN 0 ELSE (stop - start + step - 1) \div step
\* variant: stop is a value of the range as well
randrangeClosed(start, stop, step, raw) ==
    start + step * RandBelow(RandRangeCount(start, stop, step) + 1, raw)
randrange(start, stop, step, raw) ==
    start + step * RandBelow(RandRangeCount(start, stop, step), raw)

\* One pass of the loop body for the edge school, the generator having
\* yielded k values since the call began: the record, whether it was built,
\* and the number of values taken (those before the draw that raised).
SchoolFor(a, school, g, k) ==
    LET begin_age == randint(a.schools_begin_age[1], a.schools_begin_age[2], Raw(g, k))
        end_low == EndAgeLow(begin_age, a.schools_end_age)
        end_age == randint(end_low, a.schools_end_age[2], Raw(g, k + 1))
        pos == randint(0, PosMax, Raw(g, k + 2))
        capacity == randint(a.schools_capacity[1], a.schools_capacity[2], Raw(g, k + 3))
        stepsize == StepSeconds(a)
        open_lo == a.schools_open[1] * 3600
        open_hi == a.schools_open[2] * 3600
        close_lo == a.schools_close[1] * 3600
        close_hi == a.schools_close[2] * 3600
        opening == randrange(open_lo, open_hi, stepsize, Raw(g, k + 4))
        closing == randrange(close_lo, close_hi, stepsize, Raw(g, k + 5))
        failed(taken) == [ok |-> FALSE, draws |-> taken,
                          rec |-> School(school.id, 0, 0, 0, 0, 0, 0)]
    IN  IF a.schools_begin_age[1] > a.schools_begin_age[2] THEN failed(0)
        ELSE IF end_low > a.schools_end_age[2] THEN failed(1)
        ELSE IF a.schools_capacity[1] > a.schools_capacity[2] THEN failed(3)
        ELSE IF RandRangeCount(open_lo, open_hi, stepsize) <= 0 THEN failed(4)
        ELSE IF RandRangeCount(close_lo, close_hi, stepsize) <= 0 THEN failed(5)
        ELSE [ok |-> TRUE, draws |-> 6,
              rec |-> School(school.id, pos, begin_age, end_age, capacity,
                             opening, closing)]

\* for school in new_school_edges: ... ; the records appended, the exception
\* and the number of values taken from the generator
RECURSIVE SchoolLoop(_, _, _, _, _)
SchoolLoop(a, edges, g, k, acc) ==
    IF edges = <<>> THEN [schools |-> acc, err |-> "none", draws |-> k]
    ELSE LET r == SchoolFor(a, Head(edges), g, k)
         IN  IF r.ok
             THEN SchoolLoop(a, Tail(edges), g, k + r.draws, acc \o <<r.rec>>)
             ELSE [schools |-> acc, err |-> "ValueError", draws |-> k + r.draws]

\* The whole call for school_count (None: derive it from the inhabitants).
\* The result is the document, the exception, the number of draws taken and
\* new_school_edges when find_school_edges returned.
SchoolsResult(d, e, k, found) ==
    [doc |-> d, err |-> e, draws |-> k, sites |-> found]
setup_schools(n, d, a, school_count, g, base) ==
    LET d1 == IF IsNone(d.schools) THEN [d EXCEPT !.schools = Some(<<>>)] ELSE d
        xml_schools == findall(d1.schools)
        auto == IsNone(school_count)
        inhabitants == Get(d1.general).inhabitants
        target == IF auto
                  THEN NumSchoolsDefault(Get(inhabitants), a.schools_ratio)
                  ELSE Get(school_count)
        number_new_schools == NumberNewSchools(target, Len(xml_schools))
        new_school_edges == find_school_edges(n, number_new_schools, base)
        loop == SchoolLoop(a, new_school_edges, g, 0, <<>>)
        ids == [i \in 1..Len(new_school_edges) |-> new_school_edges[i].id]
    IN  IF auto /\ IsNone(d1.general) THEN SchoolsResult(d1, "AttributeError", 0, None)
        ELSE IF auto /\ IsNone(inhabitants) THEN SchoolsResult(d1, "TypeError", 0, None)
        ELSE IF number_new_schools <= 0 THEN SchoolsResult(d1, "none", 0, None)
        ELSE IF Len(getEdges(n)) = 0 THEN SchoolsResult(d1, "ValueError", 0, None)
        ELSE SchoolsResult([d1 EXCEPT !.schools = Some(xml_schools \o loop.schools)],
                           loop.err, loop.draws, Some(ids))

\* the school counts tried: None (auto) and 0..MaxSchoolCount
SchoolCounts == {None} \cup {Some(k) : k \in 0..MaxSchoolCount}

SetupSchools ==
    /\ pc = "lib"
    /\ \E school_count \in SchoolCounts :
          \E r \in {setup_schools(net, doc, cfg, school_count, rng, importBase)} :
              /\ doc' = r.doc
              /\ pre' = doc
              /\ op' = "setup_schools"
              /\ arg' = school_count
              /\ err' = r.err
              /\ draws' = r.draws
              /\ rng' = Advance(rng, r.draws)
              /\ sites' = r.sites
    /\ UNCHANGED <<net, cfg, loaded, gates, rads, pc, popBase, indBase,
                   importBase, output, stats2>>

\* school records a loaded document may already hold
OldSchool == School("old", 10, 12, 11, 50, 100, 200)
LoadedSchools == {None, Some(<<OldSchool>>)}

(***************************************************************************)
(* verify_stats                                                            *)
(***************************************************************************)
DefaultPopulation ==
    << Bracket(0, 30, 30), Bracket(30, 60, 40), Bracket(60, 90, 30) >>
DefaultWorkHours ==
    << Hour("opening", 28800, 70), Hour("opening", 30600, 30),
       Hour("closing", 43200, 10), Hour("closing", 61200, 30),
       Hour("closing", 63000, 60) >>

\* variant: an empty section counts as missing (the truth value of an
\* element without children is false)
AbsentOrEmpty(section) == IsNone(section) \/ section = Some(<<>>)
\* city.find(tag) is None
Absent(section) == IsNone(section)

\* the whole call: the document and the exception
verify_stats(d) ==
    IF d.root # "city" THEN [doc |-> d, err |-> "AssertionError"]
    ELSE IF IsNone(d.general) THEN [doc |-> d, err |-> "AssertionError"]
    ELSE IF IsNone(Get(d.general).inhabitants) THEN [doc |-> d, err |-> "KeyError"]
    ELSE IF IsNone(Get(d.general).households) THEN [doc |-> d, err |-> "KeyError"]
    ELSE
    LET d1 == IF Absent(d.population)
              THEN [d EXCEPT !.population = Some(DefaultPopulation)] ELSE d
        d2 == IF Absent(d1.workHours)
              THEN [d1 EXCEPT !.workHours = Some(DefaultWorkHours)] ELSE d1
    IN  [doc |-> d2, err |-> "none"]

VerifyStats ==
    /\ pc = "lib"
    /\ \E r \in {verify_stats(doc)} :
          /\ doc' = r.doc
          /\ err' = r.err
    /\ pre' = doc
    /\ op' = "verify_stats"
    /\ arg' = None
    /\ draws' = 0
    /\ UNCHANGED <<net, cfg, loaded, rng, gates, rads, sites, pc, popBase,
                   indBase, importBase, output, stats2>>

(***************************************************************************)
(* calculate_network_population (Perlin.py)                                *)
(***************************************************************************)
\* get_edge_ids_in_network(net)
get_edge_ids_in_network(n) == [k \in 1..Len(getEdges(n)) |-> getEdges(n)[k].id]

\* the edge of the network with the given id: net.getEdge(edge)
getEdge(n, id) == CHOOSE e \in Range(getEdges(n)) : e.id = id

\* the inner loop for one edge: street.set("population", str(pop)) on the
\* street records of that edge
SetPopulation(streets, edge, pop) ==
    [k \in 1..Len(streets) |->
        IF streets[k].edge = edge
        THEN [streets[k] EXCEPT !.population = Some(pop)] ELSE streets[k]]

RECURSIVE PopulationLoop(_, _, _)
PopulationLoop(n, ids, streets) ==
    IF ids = <<>> THEN streets
    ELSE PopulationLoop(n, Tail(ids),
            SetPopulation(streets, Head(ids),
                          get_population_number(getEdge(n, Head(ids)), 0)))

\* the whole call: the document, the exception, and whether it went on to
\* write out/stats2.xml
calculate_network_population(n, d) ==
    IF Len(getEdges(n)) = 0 THEN [doc |-> d, err |-> "none", written |-> TRUE]
    ELSE IF IsNone(d.streets)
    THEN [doc |-> d, err |-> "AttributeError", written |-> FALSE]
    ELSE [doc |-> [d EXCEPT !.streets =
                      Some(PopulationLoop(n, get_edge_ids_in_network(n),
                                          findall(d.streets)))],
          err |-> "none", written |-> TRUE]

CalculateNetworkPopulation ==
    /\ pc = "lib"
    /\ \E r \in {calculate_network_population(net, doc)} :
          /\ doc' = r.doc
          /\ err' = r.err
          /\ stats2' = IF r.written THEN Some(r.doc) ELSE stats2
    /\ pre' = doc
    /\ op' = "calculate_network_population"
    /\ arg' = None
    /\ draws' = 0
    /\ UNCHANGED <<net, cfg, loaded, rng, gates, rads, sites, pc, popBase,
                   indBase, importBase, output>>

\* street sections a loaded document may hold: none, an empty one, and one
\* with two records of one edge, a record with a weight and a record of no
\* edge of the network
LoadedStreets ==
    {None, Some(<<>>),
     Some(<< Street("AB", None, None), Street("ON", Some(1), None),
             Street("AB", Some(2), None), Street("nowhere", None, None) >>)}

(***************************************************************************)
(* main                                                                    *)
(***************************************************************************)
\* variant: the bases are never compared
BasesNeverCollide(population_base, industry_base) == FALSE
\* while perlin.POPULATION_BASE == perlin.INDUSTRY_BASE
BasesCollide(population_base, industry_base) == population_base = industry_base

\* apply_network_noise(net, stats): both weights are written into the
\* street records of every edge; an edge without a record is skipped
apply_network_noise(n, d, population_base, industry_base) ==
    IF IsNone(d.streets) THEN d
    ELSE [d EXCEPT !.streets = Some(
            [k \in 1..Len(findall(d.streets)) |->
                LET street == findall(d.streets)[k]
                IN  IF street.edge \in Range(get_edge_ids_in_network(n))
                    THEN [street EXCEPT
                            !.population = Some(get_population_number(
                                getEdge(n, street.edge), population_base)),
                            !.industry = Some(get_population_number(
                                getEdge(n, street.edge), industry_base))]
                    ELSE street])]

\* what an operation of main leaves alone
MainFrame == UNCHANGED <<net, cfg, loaded, importBase, stats2>>
\* variant: main goes on after a step that raised
AfterStepIgnoring(e, next) == next
\* where main goes after a step that ended with the exception e
AfterStep(e, next) == IF e = "none" THEN next ELSE "failed"

\* perlin.POPULATION_BASE = random.randint(0, 65_536), and INDUSTRY_BASE
MainDrawBases ==
    /\ pc = "bases"
    /\ popBase' = randint(0, MaxBase, Raw(rng, 0))
    /\ indBase' = randint(0, MaxBase, Raw(rng, 1))
    /\ rng' = Advance(rng, 2)
    /\ draws' = 2
    /\ op' = "bases"
    /\ pc' = "redraw"
    /\ UNCHANGED <<doc, pre, arg, err, gates, rads, sites, output>>
    /\ MainFrame

\* the body of the while loop
MainRedraw ==
    /\ pc = "redraw"
    /\ BasesCollide(popBase, indBase)
    /\ indBase' = randint(0, MaxBase, Raw(rng, 0))
    /\ rng' = Advance(rng, 1)
    /\ draws' = 1
    /\ op' = "redraw"
    /\ UNCHANGED <<doc, pre, arg, err, gates, rads, sites, output, pc, popBase>>
    /\ MainFrame

\* the loop is left; the network and the statistics are read
MainRead ==
    /\ pc = "redraw"
    /\ ~BasesCollide(popBase, indBase)
    /\ pc' = "verify"
    /\ UNCHANGED <<doc, pre, op, arg, err, draws, rng, gates, rads, sites,
                   output, popBase, indBase>>
    /\ MainFrame

MainVerify ==
    /\ pc = "verify"
    /\ \E r \in {verify_stats(doc)} :
          /\ doc' = r.doc
          /\ err' = r.err
          /\ pc' = AfterStep(r.err, "noise")
    /\ pre' = doc
    /\ op' = "verify_stats"
    /\ arg' = None
    /\ draws' = 0
    /\ UNCHANGED <<rng, gates, rads, sites, output, popBase, indBase>>
    /\ MainFrame

MainNoise ==
    /\ pc = "noise"
    /\ doc' = apply_network_noise(net, doc, popBase, indBase)
    /\ pre' = doc
    /\ op' = "apply_network_noise"
    /\ arg' = None
    /\ err' = "none"
    /\ draws' = 0
    /\ pc' = "gates"
    /\ UNCHANGED <<rng, gates, rads, sites, output, popBase, indBase>>
    /\ MainFrame

MainGates ==
    /\ pc = "gates"
    /\ \E r \in {setup_city_gates(net, doc, cfg.gates_count, rng)} :
          /\ doc' = r.doc
          /\ err' = r.err
          /\ draws' = r.draws
          /\ rng' = Advance(rng, r.draws)
          /\ gates' = r.gates
          /\ rads' = r.rads
          /\ pc' = AfterStep(r.err, "schools")
    /\ pre' = doc
    /\ op' = "setup_city_gates"
    /\ arg' = Some(cfg.gates_count)
    /\ UNCHANGED <<sites, output, popBase, indBase>>
    /\ MainFrame

MainSchools ==
    /\ pc = "schools"
    /\ \E r \in {setup_schools(net, doc, cfg, cfg.schools_count, rng, importBase)} :
          /\ doc' = r.doc
          /\ err' = r.err
          /\ draws' = r.draws
          /\ rng' = Advance(rng, r.draws)
          /\ sites' = r.sites
          /\ pc' = AfterStep(r.err, "write")
    /\ pre' = doc
    /\ op' = "setup_schools"
    /\ arg' = cfg.schools_count
    /\ UNCHANGED <<gates, rads, output, popBase, indBase>>
    /\ MainFrame

\* stats.write(args["--output-file"])
MainWrite ==
    /\ pc = "write"
    /\ output' = Some(doc)
    /\ pre' = doc
    /\ op' = "write"
    /\ arg' = None
    /\ err' = "none"
    /\ draws' = 0
    /\ pc' = "done"
    /\ UNCHANGED <<doc, rng, gates, rads, sites, popBase, indBase>>
    /\ MainFrame

\* the arguments main is run with
MainArgs ==
    {[a EXCEPT !.gates_count = g, !.schools_count = k] :
        a \in {ArgsAges} \cup BadSchoolArgs,
        g \in {-1, 0, 2},
        k \in {None, Some(1)}}

\* the statistics files main is run on: one that lacks the optional
\* sections, one that has them all, one without the general section
MainDocs ==
    {[BaseDoc EXCEPT !.streets = Some(<<Street("AB", None, None)>>)],
     [BaseDoc EXCEPT !.population = Some(<<Bracket(0, 90, 100)>>),
                     !.workHours = Some(<<Hour("opening", 25200, 100)>>),
                     !.streets = Some(<<>>),
                     !.cityGates = Some(<<OldEntrance1>>)],
     [BaseDoc EXCEPT !.general = None]}

InitMain ==
    /\ net \in Networks
    /\ cfg \in MainArgs
    /\ doc \in MainDocs
    /\ loaded = doc
    /\ pre = doc
    /\ op = "seed"
    /\ arg = None
    /\ err = "none"
    /\ draws = 0
    /\ rng \in RngStates
    /\ gates = <<>>
    /\ rads = <<>>
    /\ sites = None
    /\ pc = "bases"
    /\ popBase = 0
    /\ indBase = 0
    /\ importBase \in 0..MaxBase
    /\ output = None
    /\ stats2 = None

NextMain ==
    \/ MainDrawBases
    \/ MainRedraw
    \/ MainRead
    \/ MainVerify
    \/ MainNoise
    \/ MainGates
    \/ MainSchools
    \/ MainWrite

SpecMain == InitMain /\ [][NextMain]_vars

(***************************************************************************)
(* The operations of the module called one at a time on a loaded document. *)
(***************************************************************************)
InitLib ==
    /\ net \in Networks
    /\ loaded = doc
    /\ pre = doc
    /\ op = "load"
    /\ arg = None
    /\ err = "none"
    /\ draws = 0
    /\ gates = <<>>
    /\ rads = <<>>
    /\ sites = None
    /\ pc = "lib"
    /\ popBase = 0
    /\ indBase = 0
    /\ output = None
    /\ stats2 = None

\* setup_city_gates on documents with and without entrance records
InitGates ==
    /\ doc \in {[BaseDoc EXCEPT !.cityGates = g] : g \in LoadedCityGates}
    /\ cfg = ArgsAges
    /\ importBase = 0
    /\ rng \in RngStates
    /\ InitLib

NextGates == SetupCityGates

SpecGates == InitGates /\ [][NextGates]_vars

\* verify_stats and calculate_network_population on documents with and
\* without the sections they read
LoadedStats ==
    {[BaseDoc EXCEPT !.root = r, !.general = g, !.population = p,
                     !.workHours = w, !.streets = st] :
        r \in {"city", "town"},
        g \in {None, Some(General(Some(10000), Some(4000))),
               Some(General(Some(10000), None))},
        p \in {None, Some(<<>>), Some(<<Bracket(0, 90, 100)>>)},
        w \in {None, Some(<<>>), Some(<<Hour("opening", 25200, 100)>>)},
        st \in LoadedStreets}

InitStats ==
    /\ doc \in LoadedStats
    /\ cfg = ArgsAges
    /\ importBase = 0
    /\ rng = [x |-> 0, c |-> 1]
    /\ InitLib

NextStats == VerifyStats \/ CalculateNetworkPopulation

SpecStats == InitStats /\ [][NextStats]_vars

\* setup_schools on documents with and without school records
InitSchools ==
    /\ doc \in {[BaseDoc EXCEPT !.schools = x] : x \in LoadedSchools}
    /\ cfg \in SchoolArgs
    /\ importBase \in 0..MaxBase
    /\ rng \in RngStates
    /\ InitLib

NextSchools == SetupSchools

SpecSchools == InitSchools /\ [][NextSchools]_vars

\* a ratio of 0.3 schools per 1000 inhabitants
ArgsRatio ==
    Args(4, None, 300, 10000, <<7, 8>>, <<13, 14>>, <<6, 8>>, <<7, 9>>, <<100, 100>>)

\* the general/inhabitants values of the documents setup_schools is run on
\* when it derives the number of schools
Inhabitants == {0, 1, 4999, 5000, 5001, 10000, 12000}

\* setup_schools on documents of cities of different sizes
InitAuto ==
    /\ doc \in {[BaseDoc EXCEPT !.general = Some(General(Some(i), Some(4000))),
                                !.schools = x] :
                   i \in Inhabitants, x \in LoadedSchools}
    /\ cfg \in {ArgsAges, ArgsRatio, ArgsLate}
    /\ importBase = 0
    /\ rng \in {g \in RngStates : g.x = 0}
    /\ InitLib

NextAuto == SetupSchools

SpecAuto == InitAuto /\ [][NextAuto]_vars

(***************************************************************************)
(* Properties of setup_city_gates.                                         *)
(***************************************************************************)
\* the entrance records of a document
Entrances(d) == IF IsNone(d.cityGates) THEN <<>> ELSE Get(d.cityGates)
\* the last operation was setup_city_gates(net, stats, n) on m entrances
GatesCall == op = "setup_city_gates"
GatesRequested == Get(arg)
GatesBefore == Len(Entrances(pre))
GatesAppended == Len(Entrances(doc)) - GatesBefore
GatesKept ==
    /\ Len(Entrances(doc)) >= GatesBefore
    /\ SubSeq(Entrances(doc), 1, GatesBefore) = Entrances(pre)
HasDeadEnd == \E node \in Range(net.nodes) : IsDeadEnd(net, node)

\* C1 as stated: a call with n requested on m existing entrances appends
\* exactly n - m records when m < n and none when n <= m, and keeps the m
\* existing records as they are.
C1_AppendsDifference ==
    GatesCall =>
        /\ GatesBefore < GatesRequested
              => GatesAppended = GatesRequested - GatesBefore
        /\ GatesRequested <= GatesBefore => GatesAppended = 0
        /\ GatesKept

\* C1 amended: the n - m records are appended when m < n and the network
\* has a dead-end node; none is appended when n <= m or when the network has
\* no dead-end node; the m existing records are kept as they are.
C1_AppendsDifferenceWithDeadEnd ==
    GatesCall =>
        /\ (GatesBefore < GatesRequested /\ HasDeadEnd)
              => GatesAppended = GatesRequested - GatesBefore
        /\ (GatesRequested <= GatesBefore \/ ~HasDeadEnd) => GatesAppended = 0
        /\ GatesKept

\* a call that found one entrance and appended two
C1_Witness ==
    /\ GatesCall
    /\ GatesBefore = 1
    /\ GatesRequested = 3
    /\ GatesAppended = 2
    /\ HasDeadEnd

\* C6: every gate added is a dead-end node (one neighbouring node, an
\* adjoining edge with a lane that allows private vehicles), and the i-th
\* gate maximizes the dot product with the direction base + i * tau / n over
\* all dead-end nodes; on the compass network with 4 gates and base angle 0
\* the gates are the 4 compass nodes, one per direction.
C6_GatesAreExtremalDeadEnds ==
    (GatesCall /\ gates # <<>>) =>
        LET n == Len(gates)
            entrances == Entrances(doc)
        IN  /\ n = GatesAppended
            /\ \A i \in 1..n :
                 LET rad == (rads[1] + ((i - 1) * tau) \div n) % tau
                     edge == entrances[GatesBefore + i].edge
                 IN  /\ gates[i] \in Range(net.nodes)
                     /\ Cardinality(getNeighboringNodes(net, gates[i])) = 1
                     /\ \E e \in Range(net.edges) :
                           /\ gates[i].id \in {e.from, e.to}
                           /\ AllowsPrivate(e)
                     /\ \A v \in Range(net.nodes) :
                           IsDeadEnd(net, v) =>
                              gates[i].x * cos(rad) + gates[i].y * sin(rad)
                                >= v.x * cos(rad) + v.y * sin(rad)
                     /\ \E e \in Range(net.edges) :
                           e.id = edge /\ gates[i].id \in {e.from, e.to}
            /\ (net = NetCompass /\ n = 4 /\ rads[1] = 0)
                  => /\ {gates[i].id : i \in 1..n} = {"N", "E", "S", "W"}
                     /\ <<gates[1].id, gates[2].id, gates[3].id, gates[4].id>>
                           = <<"E", "N", "W", "S">>

\* the compass scenario: 4 gates, base angle 0
C6_Witness ==
    /\ GatesCall
    /\ net = NetCompass
    /\ Len(gates) = 4
    /\ rads[1] = 0
    /\ err = "none"

\* C7: with no dead-end node and at least one gate to add, the call ends
\* in an exception and appends no entrance record.
C7_NoDeadEndIsSignalled ==
    (GatesCall /\ ~HasDeadEnd /\ GatesRequested - GatesBefore > 0) =>
        /\ err # "none"
        /\ Entrances(doc) = Entrances(pre)

\* two gates requested on the ring, which has no dead end
C7_Witness ==
    /\ GatesCall
    /\ net = NetRing
    /\ GatesRequested = 2
    /\ GatesBefore = 0
    /\ err = "ValueError"

(***************************************************************************)
(* Properties of find_school_edges and setup_schools.                      *)
(***************************************************************************)
\* the school records of a document
Schools(d) == IF IsNone(d.schools) THEN <<>> ELSE Get(d.schools)
\* the last operation was setup_schools(net, stats, school_count)
SchoolsCall == op = "setup_schools"
SchoolsBefore == Len(Schools(pre))
SchoolsAppended == Len(Schools(doc)) - SchoolsBefore
\* k_target and k_new of the last call
SchoolsTarget ==
    IF IsNone(arg)
    THEN NumSchoolsDefault(Get(Get(pre.general).inhabitants), cfg.schools_ratio)
    ELSE Get(arg)
SchoolsNew == SchoolsTarget - SchoolsBefore
\* the districts of the last call: the sorted edges cut every ceil(E / k)
SchoolDistricts ==
    LET edges == SortedEdges(net)
        size == (Len(edges) + SchoolsNew - 1) \div SchoolsNew
    IN  {{edges[i].id : i \in {j \in 1..Len(edges) : (j - 1) \div size = d}} :
            d \in 0..((Len(edges) - 1) \div size)}

\* C2 as stated: for 1 <= k <= E find_school_edges returns exactly k edges,
\* one from each of exactly k districts, pairwise distinct.
C2_ExactlyKSchoolEdges ==
    (SchoolsCall /\ ~IsNone(sites) /\ SchoolsNew <= Len(net.edges)) =>
        /\ Len(Get(sites)) = SchoolsNew
        /\ Cardinality(SchoolDistricts) = SchoolsNew
        /\ Cardinality(Range(Get(sites))) = SchoolsNew
        /\ \A district \in SchoolDistricts :
              Cardinality(district \cap Range(Get(sites))) = 1

\* C3: every school record the call appended has endAge > beginAge.
C3_EndAgeAboveBeginAge ==
    SchoolsCall =>
        \A i \in (SchoolsBefore + 1)..Len(Schools(doc)) :
            Schools(doc)[i].endAge > Schools(doc)[i].beginAge

\* a call that appended a school although the begin-age range reaches past
\* the end-age upper bound
C3_Witness ==
    /\ SchoolsCall
    /\ cfg = ArgsLate
    /\ SchoolsAppended >= 1
    /\ \E i \in (SchoolsBefore + 1)..Len(Schools(doc)) :
          Schools(doc)[i].beginAge = cfg.schools_end_age[2] - 1

\* C4: a call with k_new <= 0 returns without adding, removing or changing a
\* school record and without taking a value from the random generator; no
\* call makes the number of school records smaller.
C4_NoNewSchoolsIsNoOp ==
    [][(op' = "setup_schools") =>
          /\ SchoolsNew' <= 0 =>
                /\ Schools(doc') = Schools(doc)
                /\ rng' = rng
                /\ err' = "none"
          /\ Len(Schools(doc')) >= Len(Schools(doc))]_vars

\* calls with k_new = 0 and with k_new < 0 on a document with a school
C4_Witness ==
    /\ SchoolsCall
    /\ SchoolsBefore = 1
    /\ SchoolsTarget <= 1
    /\ Schools(doc) = Schools(pre)
    /\ draws = 0

(***************************************************************************)
(* Properties of main.                                                     *)
(***************************************************************************)
\* C5: once the redraw loop is left, the population base and the industry
\* base differ.
C5_BasesDiffer ==
    pc \notin {"bases", "redraw"} => popBase # indBase

\* the loop was left after the industry base had been drawn again
C5_Witness ==
    /\ pc = "verify"
    /\ op = "redraw"
    /\ popBase # indBase

\* a run failed for a negative gate count or a malformed school range
ContractViolation ==
    /\ pc = "failed"
    /\ \/ op = "setup_city_gates" /\ err = "AssertionError"
       \/ op = "setup_schools" /\ err = "ValueError"

\* C8: when a run fails for a contract violation the document is the loaded
\* document and the output file has not been written.
C8_RejectedBeforeMutation ==
    ContractViolation => (doc = loaded /\ IsNone(output))

(***************************************************************************)
(* Properties of verify_stats and calculate_network_population.            *)
(***************************************************************************)
\* the number of entries of a workHours section with the given tag
CountTag(hours, tag) == Cardinality({k \in 1..Len(hours) : hours[k].tag = tag})

\* C9: a call that returns fills in a population section (three brackets)
\* and a workHours section (two opening, three closing entries) only when
\* the section is missing, leaves a section that is present as it is, and
\* changes nothing else; a second call right after it changes nothing.
C9_DefaultingIsIdempotent ==
    [][(op' = "verify_stats" /\ err' = "none") =>
          /\ IF IsNone(doc.population)
             THEN /\ ~IsNone(doc'.population)
                  /\ Len(Get(doc'.population)) = 3
             ELSE doc'.population = doc.population
          /\ IF IsNone(doc.workHours)
             THEN /\ ~IsNone(doc'.workHours)
                  /\ CountTag(Get(doc'.workHours), "opening") = 2
                  /\ CountTag(Get(doc'.workHours), "closing") = 3
                  /\ Len(Get(doc'.workHours)) = 5
             ELSE doc'.workHours = doc.workHours
          /\ [doc' EXCEPT !.population = None, !.workHours = None]
                = [doc EXCEPT !.population = None, !.workHours = None]
          /\ (op = "verify_stats" /\ err = "none") => doc' = doc]_vars

\* a second call on a document whose two sections the first call filled in
C9_Witness ==
    /\ op = "verify_stats"
    /\ err = "none"
    /\ IsNone(loaded.population)
    /\ IsNone(loaded.workHours)
    /\ pre = doc
    /\ Len(Get(doc.population)) = 3
    /\ Len(Get(doc.workHours)) = 5

\* the street records of a document
Streets(d) == IF IsNone(d.streets) THEN <<>> ELSE Get(d.streets)

\* C10: the call returns for every document, also one without a streets
\* section; it sets the population of the street records of the edges of the
\* network, adds no record and leaves every other record as it is.
C10_AbsentStreetIsSkipped ==
    (op = "calculate_network_population") =>
        /\ err = "none"
        /\ Len(Streets(doc)) = Len(Streets(pre))
        /\ \A k \in 1..Len(Streets(pre)) :
              IF \E e \in Range(net.edges) : e.id = Streets(pre)[k].edge
              THEN /\ ~IsNone(Streets(doc)[k].population)
                   /\ [Streets(doc)[k] EXCEPT !.population = None]
                         = [Streets(pre)[k] EXCEPT !.population = None]
              ELSE Streets(doc)[k] = Streets(pre)[k]

(***************************************************************************)
(* Properties of the derived school count.                                 *)
(***************************************************************************)
\* the least integer not below inhabitants * ratio / 1000, the ratio being
\* in thousandths
CeilPerThousand(inhabitants, ratio) ==
    CHOOSE t \in 0..(inhabitants \div 1000 + 1) :
        /\ t * 1000000 >= inhabitants * ratio
        /\ (t - 1) * 1000000 < inhabitants * ratio

\* C11: a call with school count None does what a call with the count
\* k_target = ceil(inhabitants * ratio / 1000) does, so k_new is k_target
\* less the number of school records; it adds nothing when k_new <= 0; for
\* 10000 inhabitants, ratio 0.2 and no school record it does what a call
\* for 2 schools does.
C11_AutoCountIsCeiling ==
    [][(op' = "setup_schools" /\ IsNone(arg')) =>
          LET inhabitants == Get(Get(doc.general).inhabitants)
              k_target == CeilPerThousand(inhabitants, cfg.schools_ratio)
              k_new == k_target - Len(Schools(doc))
              same == setup_schools(net, doc, cfg, Some(k_target), rng, importBase)
          IN  /\ doc' = same.doc
              /\ err' = same.err
              /\ sites' = same.sites
              /\ draws' = same.draws
              /\ k_new <= 0 => Schools(doc') = Schools(doc)
              /\ k_new > 0 => ~IsNone(sites')
              /\ (inhabitants = 10000 /\ cfg.schools_ratio = 200
                    /\ Schools(doc) = <<>>)
                    => /\ k_new = 2
                       /\ doc' = setup_schools(net, doc, cfg, Some(2), rng,
                                               importBase).doc]_vars

\* 10000 inhabitants, ratio 0.2, no school record: two schools are added on
\* the compass network
C11_Witness ==
    /\ SchoolsCall
    /\ IsNone(arg)
    /\ Get(Get(pre.general).inhabitants) = 10000
    /\ cfg.schools_ratio = 200
    /\ SchoolsBefore = 0
    /\ net = NetCompass
    /\ SchoolsAppended = 2
    /\ err = "none"

(***************************************************************************)
(* Properties of the order of the steps of main.                           *)
(***************************************************************************)
\* the place of an operation in main
OpRank(o) ==
    CASE o = "seed" -> 0
      [] o = "bases" -> 1
      [] o = "redraw" -> 2
      [] o = "verify_stats" -> 3
      [] o = "apply_network_noise" -> 4
      [] o = "setup_city_gates" -> 5
      [] o = "setup_schools" -> 6
      [] o = "write" -> 7

\* C12: the steps of main run in the order verify_stats, noise, gates,
\* schools, write, each at most once and none skipped; the bases are drawn
\* before the first of them and are not changed afterwards; a step runs only
\* when every step before it returned; the output file is written once,
\* after setup_schools returned, and never in a run in which a step raised.
C12_StepsInOrder ==
    [][/\ err = "none"
       /\ pc # "failed"
       /\ OpRank(op') >= OpRank(op)
       /\ OpRank(op') >= 3 =>
             IF OpRank(op) <= 2
             THEN \/ op' = op /\ pc = "redraw" /\ pc' = "verify"
                  \/ op' = "verify_stats" /\ pc = "verify"
             ELSE OpRank(op') = OpRank(op) + 1
       /\ OpRank(op') >= 3 =>
             /\ popBase' = popBase
             /\ indBase' = indBase
             /\ popBase # indBase
             /\ op \in {"bases", "redraw"} \/ OpRank(op) >= 3
       /\ OpRank(op') \in 3..6 => IsNone(output')
       /\ output' # output =>
             /\ op' = "write"
             /\ op = "setup_schools"
             /\ IsNone(output)
             /\ output' = Some(doc)
       /\ op' = "write" => (output' # output /\ pc' = "done")
       /\ err' # "none" => (pc' = "failed" /\ IsNone(output'))
       /\ pc' = "failed" => (err' # "none" /\ IsNone(output'))]_vars

\* a run that added gates and schools and wrote the output file
C12_Witness ==
    /\ pc = "done"
    /\ op = "write"
    /\ output = Some(doc)
    /\ Len(gates) = 2
    /\ ~IsNone(sites)
    /\ Len(Schools(doc)) > Len(Schools(loaded))
    /\ Len(Entrances(doc)) > Len(Entrances(loaded))

(***************************************************************************)
(* Properties of the entrance records.                                     *)
(***************************************************************************)
\* the lanes allowing private vehicles of the edges leaving (entering) a node
PrivateOut(node) ==
    Cardinality(UNION {{<<k, i>> : i \in {j \in 1..Len(net.edges[k].lanes) :
                                              net.edges[k].lanes[j]}} :
                        k \in {j \in 1..Len(net.edges) :
                                  net.edges[j].from = node.id}})
PrivateIn(node) ==
    Cardinality(UNION {{<<k, i>> : i \in {j \in 1..Len(net.edges[k].lanes) :
                                              net.edges[k].lanes[j]}} :
                        k \in {j \in 1..Len(net.edges) :
                                  net.edges[j].to = node.id}})

\* C13 as stated: the i-th entrance added has incoming = (1 + u1) * L_out
\* and outgoing = (1 + u2) * L_in for the two draws u1, u2 taken for the
\* gate, with L_out <= incoming < 2 * L_out (incoming = 0 when L_out = 0),
\* likewise for outgoing, and both weights non-negative.  Weights and draws
\* are in units of 1/RngMod.
C13_WeightsBelowTwiceLanes ==
    [][(op' = "setup_city_gates" /\ gates' # <<>>) =>
          \A i \in 1..Len(gates') :
             LET e == Entrances(doc')[Len(Entrances(doc)) + i]
                 u1 == Raw(rng, 2 * i - 1)
                 u2 == Raw(rng, 2 * i)
                 L_out == PrivateOut(gates'[i])
                 L_in == PrivateIn(gates'[i])
             IN  /\ e.incoming = (RngMod + u1) * L_out
                 /\ e.outgoing = (RngMod + u2) * L_in
                 /\ IF L_out = 0 THEN e.incoming = 0
                    ELSE /\ RngMod * L_out <= e.incoming
                         /\ e.incoming < 2 * RngMod * L_out
                 /\ IF L_in = 0 THEN e.outgoing = 0
                    ELSE /\ RngMod * L_in <= e.outgoing
                         /\ e.outgoing < 2 * RngMod * L_in
                 /\ e.incoming >= 0
                 /\ e.outgoing >= 0]_vars

\* C13 amended: incoming is L_out times the float nearest to 1 + u1, which
\* is 1 + u1 except that it is 2 for the largest draw; so L_out <= incoming
\* <= 2 * L_out, with incoming = 2 * L_out > 0 only for the largest draw;
\* likewise for outgoing with L_in and u2; both weights are non-negative.
C13_WeightsUpToTwiceLanes ==
    [][(op' = "setup_city_gates" /\ gates' # <<>>) =>
          \A i \in 1..Len(gates') :
             LET e == Entrances(doc')[Len(Entrances(doc)) + i]
                 u1 == Raw(rng, 2 * i - 1)
                 u2 == Raw(rng, 2 * i)
                 L_out == PrivateOut(gates'[i])
                 L_in == PrivateIn(gates'[i])
             IN  /\ u1 < RngMod - 1 => e.incoming = (RngMod + u1) * L_out
                 /\ u1 = RngMod - 1 => e.incoming = 2 * RngMod * L_out
                 /\ u2 < RngMod - 1 => e.outgoing = (RngMod + u2) * L_in
                 /\ u2 = RngMod - 1 => e.outgoing = 2 * RngMod * L_in
                 /\ RngMod * L_out <= e.incoming
                 /\ e.incoming <= 2 * RngMod * L_out
                 /\ RngMod * L_in <= e.outgoing
                 /\ e.outgoing <= 2 * RngMod * L_in
                 /\ e.incoming >= 0
                 /\ e.outgoing >= 0]_vars

\* a gate with lanes leaving it whose incoming weight is twice their number,
\* and a gate with no lane entering it whose outgoing weight is 0
C13_Witness ==
    /\ GatesCall
    /\ gates # <<>>
    /\ \E i \in 1..Len(gates) :
          /\ PrivateOut(gates[i]) > 0
          /\ Entrances(doc)[GatesBefore + i].incoming
                = 2 * RngMod * PrivateOut(gates[i])
    /\ \E i \in 1..Len(gates) :
          /\ PrivateOut(gates[i]) = 2
          /\ PrivateIn(gates[i]) = 0
          /\ Entrances(doc)[GatesBefore + i].outgoing = 0
          /\ Entrances(doc)[GatesBefore + i].incoming > 2 * RngMod
          /\ Entrances(doc)[GatesBefore + i].incoming < 4 * RngMod

\* the places in net.edges of the edges leaving (entering) a node
EdgesOut(node) == {k \in 1..Len(net.edges) : net.edges[k].from = node.id}
EdgesIn(node) == {k \in 1..Len(net.edges) : net.edges[k].to = node.id}
\* the first of a set of places
First(places) == CHOOSE k \in places : \A j \in places : k <= j

\* C14: the i-th entrance added names an edge of the network adjoining the
\* i-th gate: the first edge leaving the gate when an edge leaves it, else
\* the first edge entering it; its pos is 0.
C14_EdgeIsFirstOutgoingElseIncoming ==
    (GatesCall /\ gates # <<>>) =>
        \A i \in 1..Len(gates) :
            LET e == Entrances(doc)[GatesBefore + i]
                out == EdgesOut(gates[i])
                in == EdgesIn(gates[i])
            IN  /\ e.pos = 0
                /\ \E k \in out \cup in : net.edges[k].id = e.edge
                /\ IF out # {} THEN e.edge = net.edges[First(out)].id
                   ELSE /\ in # {}
                        /\ e.edge = net.edges[First(in)].id

\* a call that chose a gate with an edge each way and a gate that edges
\* only enter
C14_Witness ==
    /\ GatesCall
    /\ \E i \in 1..Len(gates) :
          /\ EdgesOut(gates[i]) # {}
          /\ EdgesIn(gates[i]) # {}
          /\ Entrances(doc)[GatesBefore + i].edge = "AB"
    /\ \E i \in 1..Len(gates) :
          /\ EdgesOut(gates[i]) = {}
          /\ Entrances(doc)[GatesBefore + i].edge = "BD"

(***************************************************************************)
(* Properties of the districts and the school sites.                       *)
(***************************************************************************)
\* the least integer not below a / b, for b > 0
CeilDiv(a, b) == CHOOSE q \in 0..a : q * b >= a /\ (q - 1) * b < a

\* every draw of the loop of setup_schools has a value to yield, whatever
\* the begin age drawn
RangesAdmitDraws(a) ==
    /\ a.schools_begin_age[1] <= a.schools_begin_age[2]
    /\ a.schools_begin_age[2] + 1 <= a.schools_end_age[2]
    /\ a.schools_capacity[1] <= a.schools_capacity[2]
    /\ (a.schools_stepsize * 3600) \div 10000 > 0
    /\ a.schools_open[1] < a.schools_open[2]
    /\ a.schools_close[1] < a.schools_close[2]

DistrictsBuilt ==
    Districts(SortedEdges(net), DistrictSize(Len(net.edges), SchoolsNew))

\* C16 as stated: the site of every district is an edge of the district, and
\* its population noise, sampled at its centroid with the population base of
\* the run, is not below that of any edge of the district.
C16_SiteMaximizesPopulation ==
    (SchoolsCall /\ ~IsNone(sites)) =>
        /\ Len(Get(sites)) = Len(DistrictsBuilt)
        /\ \A d \in 1..Len(DistrictsBuilt) :
              \E site \in Range(DistrictsBuilt[d]) :
                 /\ site.id = Get(sites)[d]
                 /\ \A e \in Range(DistrictsBuilt[d]) :
                       get_population_number(site, popBase)
                          >= get_population_number(e, popBase)

\* the edges of the districts built, one after the other
RECURSIVE Flatten(_)
Flatten(ds) == IF ds = <<>> THEN <<>> ELSE Head(ds) \o Flatten(Tail(ds))

\* the districts are cut from an order of all the edges: each edge is in
\* one district, once; every district but the last has the same size, and
\* the last is not empty and not larger
DistrictsPartition(ds) ==
    /\ Len(Flatten(ds)) = Len(net.edges)
    /\ Range(Flatten(ds)) = Range(net.edges)
    /\ \A d \in 1..Len(ds) : Len(ds[d]) = Len(ds[1]) \/ d = Len(ds)
    /\ Len(ds[Len(ds)]) >= 1
    /\ Len(ds[Len(ds)]) <= Len(ds[1])
    /\ \A d \in 1..Len(ds) : Get(sites)[d] \in {e.id : e \in Range(ds[d])}

\* the centroid of a is not beyond that of b: in x, and in (x + y) / 2
XNotBeyond(a, b) ==
    LET ca == Centroid(a.shape)
        cb == Centroid(b.shape)
    IN  ca.sx * cb.n <= cb.sx * ca.n
MeanNotBeyond(a, b) ==
    LET ca == Centroid(a.shape)
        cb == Centroid(b.shape)
    IN  (ca.sx + ca.sy) * cb.n <= (cb.sx + cb.sy) * ca.n

\* C17 as stated: the districts are cut from the edges in ascending order
\* of the x coordinate of their centroid, they are contiguous, disjoint,
\* cover every edge and have the same size but for the last; so every edge
\* of a district has a centroid x not beyond that of every edge of a later
\* district.
C17_DistrictsOrderedByX ==
    (SchoolsCall /\ ~IsNone(sites)) =>
        LET ds == DistrictsBuilt
            all == Flatten(ds)
        IN  /\ DistrictsPartition(ds)
            /\ \A i \in 1..(Len(all) - 1) : XNotBeyond(all[i], all[i + 1])
            /\ \A A \in 1..Len(ds) : \A B \in (A + 1)..Len(ds) :
                  \A a \in Range(ds[A]) : \A b \in Range(ds[B]) :
                      XNotBeyond(a, b)

\* C17 amended: the same, the order being that of the mean (x + y) / 2 of
\* the two coordinates of the centroid.
C17_DistrictsOrderedByMean ==
    (SchoolsCall /\ ~IsNone(sites)) =>
        LET ds == DistrictsBuilt
            all == Flatten(ds)
        IN  /\ DistrictsPartition(ds)
            /\ \A i \in 1..(Len(all) - 1) : MeanNotBeyond(all[i], all[i + 1])
            /\ \A A \in 1..Len(ds) : \A B \in (A + 1)..Len(ds) :
                  \A a \in Range(ds[A]) : \A b \in Range(ds[B]) :
                      MeanNotBeyond(a, b)

\* three districts on the ring, where the order of the means is not the
\* order of x: edge AB (x = 5) is in the district before that of CA (x = 0)
C17_Witness ==
    /\ SchoolsCall
    /\ net = NetRing
    /\ sites = Some(<<"AB", "CA", "BC">>)
    /\ Len(DistrictsBuilt) = 3
    /\ ~XNotBeyond(DistrictsBuilt[1][1], DistrictsBuilt[2][1])

(***************************************************************************)
(* Properties of the school records.                                       *)
(***************************************************************************)
\* the school records the last call appended
SchoolsAdded ==
    {Schools(doc)[i] : i \in (SchoolsBefore + 1)..Len(Schools(doc))}

\* the values the draw of end_age can yield after begin_age b was drawn
EndAgesPossible(b) ==
    {randint(EndAgeLow(b, cfg.schools_end_age), cfg.schools_end_age[2], raw) :
        raw \in 0..(RngMod - 1)}

\* C18 as stated: for a school with begin age b, end_age is within the
\* configured range [end_lo, end_hi] and every integer from
\* max(end_lo, b + 1) to end_hi is a value the draw of end_age can yield.
C18_EndAgeDrawnOverRange ==
    SchoolsCall =>
        \A s \in SchoolsAdded :
            LET end_lo == cfg.schools_end_age[1]
                end_hi == cfg.schools_end_age[2]
                from == IF end_lo >= s.beginAge + 1 THEN end_lo
                        ELSE s.beginAge + 1
            IN  /\ s.endAge \in end_lo..end_hi
                /\ \A v \in from..end_hi : v \in EndAgesPossible(s.beginAge)

\* value is lo hours plus a number of steps, and before hi hours; hours is
\* <<lo, hi>> and step is in seconds
OnStepWithin(value, hours, step) ==
    /\ hours[1] * 3600 <= value
    /\ value < hours[2] * 3600
    /\ \E j \in 0..((hours[2] - hours[1]) * 3600) :
          value = hours[1] * 3600 + j * step

\* C19: every school record the call appended has pos in 0..100, beginAge
\* and capacity within their configured ranges, and opening (closing) at a
\* whole number of steps of int(stepsize * 3600) seconds from the lower
\* hour of the configured interval and before its upper hour; all of them
\* are non-negative.
C19_AttributesWithinBounds ==
    SchoolsCall =>
        \A s \in SchoolsAdded :
            LET step == (cfg.schools_stepsize * 3600) \div 10000
            IN  /\ s.pos \in 0..100
                /\ s.beginAge \in
                      cfg.schools_begin_age[1]..cfg.schools_begin_age[2]
                /\ s.capacity \in
                      cfg.schools_capacity[1]..cfg.schools_capacity[2]
                /\ OnStepWithin(s.opening, cfg.schools_open, step)
                /\ OnStepWithin(s.closing, cfg.schools_close, step)
                /\ s.pos >= 0
                /\ s.beginAge >= 0
                /\ s.endAge >= 0
                /\ s.capacity >= 0
                /\ s.opening >= 0
                /\ s.closing >= 0

\* half-hour steps: a school that opens half an hour after the lower hour,
\* and a school at the far end of its edge
C19_Witness ==
    /\ SchoolsCall
    /\ cfg = ArgsHours
    /\ \E s \in SchoolsAdded :
          /\ s.opening = 7 * 3600 + 1800
          /\ s.closing \in {13 * 3600, 13 * 3600 + 1800}
    /\ \E s \in SchoolsAdded : s.pos = 100
    /\ \E s \in SchoolsAdded : s.pos \in 1..99

(***************************************************************************)
(* Properties of the noise bases.                                          *)
(***************************************************************************)
\* C20 as stated: once main has drawn the bases, neither the population
\* base nor the industry base is 0, whatever the seed.
C20_BasesNonZero ==
    pc \notin {"bases", "redraw"} => (popBase # 0 /\ indBase # 0)

====
